---- MODULE Spec2Model ----
(***************************************************************************)
(* The ETL core of the advocacy platform: extractor, validator,            *)
(* transformer, in-batch deduplication, loader and the pipeline            *)
(* orchestrator (src/src/etl/pipeline.ts and its collaborators).           *)
(*                                                                         *)
(* Strings are sequences of one-character strings, so that trim,           *)
(* toLowerCase, the /^@+/ replacement and Number(string) are computed and  *)
(* not tabulated.  JSON values are records [t, s, n]: t is the JavaScript  *)
(* type ("absent" is undefined, "nan" is the number NaN), s the string     *)
(* value and n the numeric value.  Amounts are integers (minor units).     *)
(***************************************************************************)
EXTENDS Integers, Sequences, FiniteSets, TLC

\* ------------------------------------------------------------- bounds
\* Longest directory listing explored.
MaxFiles == 3
\* Largest options.batchSize explored (1..MaxBatchSize).
MaxBatchSize == 3
\* Longest entity list handed to a stand-alone loadUserBatch call.
MaxLoadUsers == 4
\* Numeric strings are parsed up to this many digits.
MaxDigits == 3

\* ------------------------------------------------------------ strings
Digits == <<"0", "1", "2", "3", "4", "5", "6", "7", "8", "9">>

IsSpace(c) == c \in {" ", "\t", "\n"}

Upper == <<"A", "B", "C", "D", "E", "F", "G", "H", "I", "J", "K", "L", "M",
           "N", "O", "P", "Q", "R", "S", "T", "U", "V", "W", "X", "Y", "Z">>

Lower == <<"a", "b", "c", "d", "e", "f", "g", "h", "i", "j", "k", "l", "m",
           "n", "o", "p", "q", "r", "s", "t", "u", "v", "w", "x", "y", "z">>

LowerChar(c) ==
  IF \E i \in 1..26 : Upper[i] = c
    THEN Lower[CHOOSE i \in 1..26 : Upper[i] = c]
    ELSE c

\* String.prototype.toLowerCase
toLowerCase(s) == [i \in 1..Len(s) |-> LowerChar(s[i])]

RECURSIVE trimStart(_)
trimStart(s) ==
  IF s # <<>> /\ IsSpace(Head(s)) THEN trimStart(Tail(s)) ELSE s

RECURSIVE trimEnd(_)
trimEnd(s) ==
  IF s # <<>> /\ IsSpace(s[Len(s)])
    THEN trimEnd(SubSeq(s, 1, Len(s) - 1))
    ELSE s

\* String.prototype.trim
trim(s) == trimEnd(trimStart(s))

\* handle.replace(/^@+/, '')
RECURSIVE stripLeadingAt(_)
stripLeadingAt(s) ==
  IF s # <<>> /\ Head(s) = "@" THEN stripLeadingAt(Tail(s)) ELSE s

IsDigit(c) == \E i \in 1..10 : Digits[i] = c

DigitValue(c) == (CHOOSE i \in 1..10 : Digits[i] = c) - 1

RECURSIVE DigitsValue(_)
DigitsValue(s) ==
  IF s = <<>> THEN 0
  ELSE 10 * DigitsValue(SubSeq(s, 1, Len(s) - 1)) + DigitValue(s[Len(s)])

RECURSIVE NatToChars(_)
NatToChars(k) ==
  IF k < 10 THEN <<Digits[k + 1]>>
  ELSE NatToChars(k \div 10) \o <<Digits[(k % 10) + 1]>>

\* String(number) of an integer
NumToChars(k) == IF k < 0 THEN <<"-">> \o NatToChars(0 - k) ELSE NatToChars(k)

\* ------------------------------------------------------- JSON values
Absent == [t |-> "absent", s |-> <<>>, n |-> 0]
NullV == [t |-> "null", s |-> <<>>, n |-> 0]
NaNV == [t |-> "nan", s |-> <<>>, n |-> 0]
Str(x) == [t |-> "str", s |-> x, n |-> 0]
Num(k) == [t |-> "num", s |-> <<>>, n |-> k]
\* A JSON value of a type no schema field accepts (the boolean true).
BoolV == [t |-> "bool", s |-> <<>>, n |-> 1]

\* JavaScript truthiness, as used by `x && ...`, `x || y` and `!x`.
Truthy(v) ==
  CASE v.t = "str" -> v.s # <<>>
    [] v.t = "num" -> v.n # 0
    [] v.t = "bool" -> v.n # 0
    [] OTHER -> FALSE

\* Number(string): blank is 0, an optionally signed run of digits is its
\* value, anything else is NaN.  (Decimal, exponent, hexadecimal and
\* "Infinity" literals are outside the modelled alphabet of inputs.)
StringToNumber(s) ==
  LET body == trim(s)
      neg == body # <<>> /\ Head(body) = "-"
      digs == IF neg THEN Tail(body) ELSE body
  IN IF body = <<>> THEN Num(0)
     ELSE IF digs # <<>> /\ Len(digs) <= MaxDigits
               /\ \A i \in 1..Len(digs) : IsDigit(digs[i])
       THEN Num(IF neg THEN 0 - DigitsValue(digs) ELSE DigitsValue(digs))
       ELSE NaNV

\* Number(x)
JsNumber(v) ==
  CASE v.t = "num" -> v
    [] v.t = "bool" -> Num(v.n)
    [] v.t = "str" -> StringToNumber(v.s)
    [] v.t = "null" -> Num(0)
    [] OTHER -> NaNV

\* String(x) for the values a z.union([z.string(), z.number()]) lets in
JsString(v) == IF v.t = "num" THEN Str(NumToChars(v.n)) ELSE v

\* An array-valued JSON field: t is "arr", or "absent", "null", or "str"
\* for a value that is no array.
Arr(items) == [t |-> "arr", items |-> items]
NoArr(t) == [t |-> t, items |-> <<>>]

\* ---------------------------------------------------------- validator
instagram == <<"i", "n", "s", "t", "a", "g", "r", "a", "m">>
facebook == <<"f", "a", "c", "e", "b", "o", "o", "k">>
twitter == <<"t", "w", "i", "t", "t", "e", "r">>
tiktok == <<"t", "i", "k", "t", "o", "k">>
youtube == <<"y", "o", "u", "t", "u", "b", "e">>
linkedin == <<"l", "i", "n", "k", "e", "d", "i", "n">>
other == <<"o", "t", "h", "e", "r">>

socialPlatformSchema ==
  {instagram, facebook, twitter, tiktok, youtube, linkedin, other}

SeqAll(P(_), s) == \A i \in 1..Len(s) : P(s[i])

\* z.union([z.string(), z.number()]).transform(String).nullable().optional()
zStringOrNumberOk(v) == v.t \in {"str", "num", "null", "absent"}
zStringOrNumber(v) == JsString(v)

\* z.string().nullable().optional()
zStringOk(v) == v.t \in {"str", "null", "absent"}

\* z.union([z.number(), z.string()]).transform(Number).nullable().optional()
zNumberOk(v) == v.t \in {"num", "str", "null", "absent"}
zNumber(v) == IF v.t = "str" THEN StringToNumber(v.s) ELSE v

\* platform: String, then toLowerCase().trim(), then the enumeration with
\* .catch('other')
zPlatform(v) ==
  IF v.t \in {"str", "num"}
    THEN LET p == trim(toLowerCase(JsString(v).s))
         IN Str(IF p \in socialPlatformSchema THEN p ELSE other)
    ELSE v

\* z.array(...).nullable().optional()
zArrayOk(a, itemOk(_)) ==
  \/ a.t \in {"null", "absent"}
  \/ a.t = "arr" /\ SeqAll(itemOk, a.items)

flexibleSocialPostOk(task) ==
  /\ zStringOrNumberOk(task.task_id)
  /\ zStringOrNumberOk(task.platform)
  /\ zStringOk(task.post_url)
  /\ zNumberOk(task.likes)
  /\ zNumberOk(task.comments)
  /\ zNumberOk(task.shares)
  /\ zNumberOk(task.reach)

flexibleSocialPostSchema(task) ==
  [task_id |-> zStringOrNumber(task.task_id),
   platform |-> zPlatform(task.platform),
   post_url |-> task.post_url,
   likes |-> zNumber(task.likes),
   comments |-> zNumber(task.comments),
   shares |-> zNumber(task.shares),
   reach |-> zNumber(task.reach)]

flexibleProgramOk(program) ==
  /\ zStringOrNumberOk(program.program_id)
  /\ zStringOrNumberOk(program.brand)
  /\ zArrayOk(program.tasks_completed, flexibleSocialPostOk)
  /\ zNumberOk(program.total_sales_attributed)

flexibleProgramSchema(program) ==
  [program_id |-> zStringOrNumber(program.program_id),
   brand |-> zStringOrNumber(program.brand),
   tasks_completed |->
     IF program.tasks_completed.t = "arr"
       THEN Arr([i \in 1..Len(program.tasks_completed.items) |->
                   flexibleSocialPostSchema(program.tasks_completed.items[i])])
       ELSE program.tasks_completed,
   total_sales_attributed |-> zNumber(program.total_sales_attributed)]

flexibleUserOk(data) ==
  /\ zStringOrNumberOk(data.user_id)
  /\ zStringOk(data.name)
  /\ zStringOk(data.email)
  /\ zStringOk(data.instagram_handle)
  /\ zStringOk(data.tiktok_handle)
  /\ zArrayOk(data.advocacy_programs, flexibleProgramOk)
  /\ data.joined_at.t \in {"str", "num", "null", "absent"}

flexibleUserSchema(data) ==
  [user_id |-> zStringOrNumber(data.user_id),
   name |-> data.name,
   email |-> data.email,
   instagram_handle |-> data.instagram_handle,
   tiktok_handle |-> data.tiktok_handle,
   advocacy_programs |->
     IF data.advocacy_programs.t = "arr"
       THEN Arr([i \in 1..Len(data.advocacy_programs.items) |->
                   flexibleProgramSchema(data.advocacy_programs.items[i])])
       ELSE data.advocacy_programs,
   joined_at |-> data.joined_at]

validateUserFails(data) ==
  ~flexibleUserOk(data)

\* validateUser: {success, data, isClean}; data is the schema's output.
validateUser(data) ==
  IF validateUserFails(data)
    THEN [success |-> FALSE, isClean |-> FALSE]
    ELSE LET raw == flexibleUserSchema(data)
         IN [success |-> TRUE,
             data |-> raw,
             isClean |-> /\ Truthy(raw.user_id)
                         /\ raw.user_id.t # "null"
                         /\ Truthy(raw.name)
                         /\ Truthy(raw.email)
                         /\ raw.advocacy_programs.t = "arr"
                         /\ Len(raw.advocacy_programs.items) > 0]

\* -------------------------------------------------------- transformer
\* A Date, or undefined (def = FALSE).
NoDate == [def |-> FALSE, ms |-> 0]
DateOf(ms) == [def |-> TRUE, ms |-> ms]

\* `${prefix}_${Date.now()}_${Math.random().toString(36).substr(2, 9)}`:
\* g, the serial number of the transformUser call, stands for the clock and
\* i, the position inside the record, for the random suffix, so that two
\* generated identifiers are never equal.
GenId(prefix, g, i) ==
  prefix \o <<"_">> \o NatToChars(g) \o <<"_">> \o NatToChars(i)

normalizeSocialHandle(handle) == trim(toLowerCase(stripLeadingAt(handle)))

\* new Date(string): a four-digit year parses, any other string of the
\* modelled alphabet is an Invalid Date.  The time value is kept abstract.
DateParse(s) ==
  IF Len(s) = 4 /\ \A i \in 1..4 : IsDigit(s[i])
    THEN DateOf(DigitsValue(s))
    ELSE NoDate

\* parseTimestamp(value); every modelled number is below the 10000000000
\* threshold of the seconds/milliseconds test, so it is taken as seconds.
parseTimestamp(value) ==
  CASE ~Truthy(value) -> NoDate
    [] value.t = "num" -> DateOf(value.n * 1000)
    [] value.t = "str" -> DateParse(value.s)
    [] OTHER -> NoDate

\* Variant: reach counts as engagement.
calculateEngagementWithReach(post) ==
  post.likes + post.comments + post.shares + post.reach

calculateEngagement(post) == post.likes + post.comments + post.shares

\* isNaN(Number(x)) ? 0 : Number(x)
SafeNumber(v) == IF JsNumber(v).t = "nan" THEN 0 ELSE JsNumber(v).n

HandleKept(h) == h.handle # <<>> /\ h.platform # <<>>

\* handles: a sequence of {platform, handle}, handle a JSON value
transformSocialHandles(handles) ==
  SelectSeq([i \in 1..Len(handles) |->
               [platform |-> handles[i].platform,
                handle |-> IF Truthy(handles[i].handle)
                             THEN normalizeSocialHandle(handles[i].handle.s)
                             ELSE <<>>]],
            HandleKept)

NonBlank(v) == Truthy(v) /\ v.t = "str" /\ trim(v.s) # <<>>

PostKept(p) == p.postId # <<>> /\ p.platform # <<>>

transformSocialPost(post, g, i) ==
  LET likes == SafeNumber(post.likes)
      comments == SafeNumber(post.comments)
      shares == SafeNumber(post.shares)
      reach == SafeNumber(post.reach)
  IN [postId |-> IF NonBlank(post.task_id)
                   THEN post.task_id.s
                   ELSE GenId(<<"t", "a", "s", "k">>, g, i),
      platform |-> IF Truthy(post.platform) THEN post.platform.s ELSE other,
      url |-> IF NonBlank(post.post_url) THEN post.post_url.s ELSE <<>>,
      likes |-> likes,
      comments |-> comments,
      shares |-> shares,
      reach |-> reach,
      engagement |->
        calculateEngagement([likes |-> likes, comments |-> comments,
                             shares |-> shares, reach |-> reach])]

transformSocialPosts(posts, g) ==
  SelectSeq([i \in 1..Len(posts) |-> transformSocialPost(posts[i], g, i)],
            PostKept)

UnknownProgram ==
  <<"U", "n", "k", "n", "o", "w", "n", " ", "P", "r", "o", "g", "r", "a", "m">>

ProgramKept(p) ==
  p.programId # <<>> /\ p.programName # <<>> /\ p.programName # UnknownProgram

transformPrograms(programs, g) ==
  IF programs.t # "arr" \/ Len(programs.items) = 0 THEN <<>>
  ELSE SelectSeq(
         [i \in 1..Len(programs.items) |->
            [programId |->
               IF NonBlank(programs.items[i].program_id)
                 THEN programs.items[i].program_id.s
                 ELSE GenId(<<"p", "r", "o", "g", "r", "a", "m">>, g, i),
             programName |->
               IF Truthy(programs.items[i].brand)
                 THEN JsString(programs.items[i].brand).s
                 ELSE UnknownProgram]],
         ProgramKept)

\* allPosts = [...allPosts, ...tasksCompleted] over the programs, in order
RECURSIVE AllTasks(_)
AllTasks(programs) ==
  IF programs = <<>> THEN <<>>
  ELSE (IF Head(programs).tasks_completed.t = "arr"
          THEN Head(programs).tasks_completed.items
          ELSE <<>>) \o AllTasks(Tail(programs))

\* Variant: an amount of 0 is recorded as well.
SalesRecordedFromZero(prog) ==
  /\ NonBlank(prog.program_id)
  /\ JsNumber(prog.total_sales_attributed).t # "nan"
  /\ JsNumber(prog.total_sales_attributed).n >= 0

SalesRecorded(prog) ==
  /\ NonBlank(prog.program_id)
  /\ JsNumber(prog.total_sales_attributed).t # "nan"
  /\ JsNumber(prog.total_sales_attributed).n > 0

createSalesAttribution(programId, amount) ==
  [programId |-> programId, amount |-> amount]

RECURSIVE ProgramSales(_)
ProgramSales(programs) ==
  IF programs = <<>> THEN <<>>
  ELSE (IF SalesRecorded(Head(programs))
          THEN <<createSalesAttribution(
                   Head(programs).program_id.s,
                   JsNumber(Head(programs).total_sales_attributed).n)>>
          ELSE <<>>) \o ProgramSales(Tail(programs))

RECURSIVE SumEngagement(_)
SumEngagement(posts) ==
  IF posts = <<>> THEN 0
  ELSE Head(posts).engagement + SumEngagement(Tail(posts))

RECURSIVE SumAmount(_)
SumAmount(sales) ==
  IF sales = <<>> THEN 0
  ELSE Head(sales).amount + SumAmount(Tail(sales))

DirectHandles(rawData) ==
  (IF Truthy(rawData.instagram_handle)
     THEN <<[platform |-> instagram, handle |-> rawData.instagram_handle]>>
     ELSE <<>>)
  \o (IF Truthy(rawData.tiktok_handle)
        THEN <<[platform |-> tiktok, handle |-> rawData.tiktok_handle]>>
        ELSE <<>>)

\* transformUser(rawData), the g-th call of the process.  An undefined name,
\* email or url is the empty string: the code itself maps '' to undefined.
transformUser(rawData, g) ==
  LET advocacyPrograms ==
        IF rawData.advocacy_programs.t = "arr"
          THEN rawData.advocacy_programs.items
          ELSE <<>>
      posts == transformSocialPosts(AllTasks(advocacyPrograms), g)
      salesAttributions == ProgramSales(advocacyPrograms)
  IN [userId |-> IF NonBlank(rawData.user_id)
                   THEN rawData.user_id.s
                   ELSE GenId(<<"u", "s", "e", "r">>, g, 0),
      name |-> IF Truthy(rawData.name) THEN rawData.name.s ELSE <<>>,
      email |-> IF Truthy(rawData.email) THEN rawData.email.s ELSE <<>>,
      socialHandles |-> transformSocialHandles(DirectHandles(rawData)),
      programs |-> transformPrograms(rawData.advocacy_programs, g),
      posts |-> posts,
      salesAttributions |-> salesAttributions,
      joinDate |-> parseTimestamp(rawData.joined_at),
      totalEngagement |-> SumEngagement(posts),
      totalSales |-> SumAmount(salesAttributions)]

\* x.trim() or x.replace() on a truthy value that is no string: TypeError.
NotAString(v) == Truthy(v) /\ v.t # "str"

\* transformUser(rawData) throws: it calls a string method on the truthy
\* user_id, handle, program_id, task_id or post_url of the record.
transformUserThrows(rawData) ==
  \/ NotAString(rawData.user_id)
  \/ NotAString(rawData.instagram_handle)
  \/ NotAString(rawData.tiktok_handle)
  \/ /\ rawData.advocacy_programs.t = "arr"
     /\ \E i \in 1..Len(rawData.advocacy_programs.items) :
          LET prog == rawData.advocacy_programs.items[i]
          IN \/ NotAString(prog.program_id)
             \/ /\ prog.tasks_completed.t = "arr"
                /\ \E j \in 1..Len(prog.tasks_completed.items) :
                     \/ NotAString(prog.tasks_completed.items[j].task_id)
                     \/ NotAString(prog.tasks_completed.items[j].post_url)

\* ------------------------------------------------------ deduplication
\* A JavaScript Map is a sequence of its values in insertion order;
\* Map.set on a present key keeps the key's position.

\* Position of the first element of s satisfying Has, or 0.
IndexOf(s, Has(_)) ==
  IF \E i \in 1..Len(s) : Has(s[i])
    THEN CHOOSE i \in 1..Len(s) : Has(s[i]) /\ \A j \in 1..(i - 1) : ~Has(s[j])
    ELSE 0

BoolToInt(b) == IF b THEN 1 ELSE 0

calculateCompletenessScore(user) ==
  BoolToInt(user.name # <<>>)
  + BoolToInt(user.email # <<>>)
  + BoolToInt(user.joinDate.def)
  + Len(user.socialHandles) * 2
  + Len(user.programs) * 3
  + Len(user.posts)
  + Len(user.salesAttributions) * 5
  + user.totalEngagement
  + user.totalSales

HandleKey(h) == h.platform \o <<":">> \o h.handle

RECURSIVE deduplicateSocialHandlesFrom(_, _)
deduplicateSocialHandlesFrom(handles, seen) ==
  IF handles = <<>> THEN seen
  ELSE LET handle == Head(handles)
           SameKey(x) == HandleKey(x) = HandleKey(handle)
       IN deduplicateSocialHandlesFrom(
            Tail(handles),
            IF IndexOf(seen, SameKey) = 0 THEN Append(seen, handle) ELSE seen)

deduplicateSocialHandles(handles) ==
  deduplicateSocialHandlesFrom(handles, <<>>)

RECURSIVE deduplicateProgramsFrom(_, _)
deduplicateProgramsFrom(programs, seen) ==
  IF programs = <<>> THEN seen
  ELSE LET program == Head(programs)
           SameKey(x) == x.programId = program.programId
       IN deduplicateProgramsFrom(
            Tail(programs),
            IF IndexOf(seen, SameKey) = 0 THEN Append(seen, program) ELSE seen)

deduplicatePrograms(programs) == deduplicateProgramsFrom(programs, <<>>)

\* Variant: the first post seen for a postId is kept, whatever its engagement.
RECURSIVE deduplicatePostsFirstSeenFrom(_, _)
deduplicatePostsFirstSeenFrom(posts, seen) ==
  IF posts = <<>> THEN seen
  ELSE LET post == Head(posts)
           SameKey(x) == x.postId = post.postId
       IN deduplicatePostsFirstSeenFrom(
            Tail(posts),
            IF IndexOf(seen, SameKey) = 0 THEN Append(seen, post) ELSE seen)

deduplicatePostsFirstSeen(posts) == deduplicatePostsFirstSeenFrom(posts, <<>>)

RECURSIVE deduplicatePostsFrom(_, _)
deduplicatePostsFrom(posts, seen) ==
  IF posts = <<>> THEN seen
  ELSE LET post == Head(posts)
           SameKey(x) == x.postId = post.postId
           at == IndexOf(seen, SameKey)
       IN deduplicatePostsFrom(
            Tail(posts),
            IF at = 0 THEN Append(seen, post)
            ELSE IF post.engagement > seen[at].engagement
              THEN [seen EXCEPT ![at] = post]
              ELSE seen)

deduplicatePosts(posts) == deduplicatePostsFrom(posts, <<>>)

\* Variant: the first attribution seen for a programId is kept unchanged.
deduplicateSalesAttributionsFirstSeen(attributions) ==
  deduplicateProgramsFrom(attributions, <<>>)

RECURSIVE deduplicateSalesAttributionsFrom(_, _)
deduplicateSalesAttributionsFrom(attributions, salesMap) ==
  IF attributions = <<>> THEN salesMap
  ELSE LET attribution == Head(attributions)
           SameKey(x) == x.programId = attribution.programId
           at == IndexOf(salesMap, SameKey)
       IN deduplicateSalesAttributionsFrom(
            Tail(attributions),
            IF at = 0
              THEN Append(salesMap, [programId |-> attribution.programId,
                                     amount |-> 0 + attribution.amount])
              ELSE [salesMap EXCEPT
                      ![at].amount = salesMap[at].amount + attribution.amount])

deduplicateSalesAttributions(attributions) ==
  deduplicateSalesAttributionsFrom(attributions, <<>>)

mergeUsers(user1, user2) ==
  [userId |-> user1.userId,
   name |-> IF user1.name # <<>> THEN user1.name ELSE user2.name,
   email |-> IF user1.email # <<>> THEN user1.email ELSE user2.email,
   joinDate |-> IF user1.joinDate.def THEN user1.joinDate ELSE user2.joinDate,
   socialHandles |->
     deduplicateSocialHandles(user1.socialHandles \o user2.socialHandles),
   programs |-> deduplicatePrograms(user1.programs \o user2.programs),
   posts |-> deduplicatePosts(user1.posts \o user2.posts),
   salesAttributions |->
     deduplicateSalesAttributions(
       user1.salesAttributions \o user2.salesAttributions),
   totalEngagement |-> 0,
   totalSales |-> 0]

\* Variant of the loop iteration: the comparison of the scores is reversed.
deduplicateUsersStepLowerWins(userMap, user) ==
  LET SameKey(x) == x.userId = user.userId
      at == IndexOf(userMap, SameKey)
  IN IF at = 0 THEN Append(userMap, user)
     ELSE LET existingScore == calculateCompletenessScore(userMap[at])
              newScore == calculateCompletenessScore(user)
          IN IF newScore < existingScore
               THEN [userMap EXCEPT ![at] = user]
             ELSE IF newScore = existingScore
               THEN [userMap EXCEPT ![at] = mergeUsers(userMap[at], user)]
             ELSE userMap

\* One iteration of the loop of deduplicateUsers over userMap.
deduplicateUsersStep(userMap, user) ==
  LET SameKey(x) == x.userId = user.userId
      at == IndexOf(userMap, SameKey)
  IN IF at = 0 THEN Append(userMap, user)
     ELSE LET existingScore == calculateCompletenessScore(userMap[at])
              newScore == calculateCompletenessScore(user)
          IN IF newScore > existingScore
               THEN [userMap EXCEPT ![at] = user]
             ELSE IF newScore = existingScore
               THEN [userMap EXCEPT ![at] = mergeUsers(userMap[at], user)]
             ELSE userMap

RECURSIVE deduplicateUsersFrom(_, _)
deduplicateUsersFrom(users, userMap) ==
  IF users = <<>> THEN userMap
  ELSE deduplicateUsersFrom(Tail(users),
                            deduplicateUsersStep(userMap, Head(users)))

deduplicateUsers(users) == deduplicateUsersFrom(users, <<>>)

\* Variant: the totals are left as deduplicateUsers returned them.
recalculateTotalsSkipped(user) == user

recalculateTotals(user) ==
  [user EXCEPT !.totalEngagement = SumEngagement(user.posts),
               !.totalSales = SumAmount(user.salesAttributions)]

\* ------------------------------------------------------------- loader
\* A collection is the sequence of its documents in insertion order; an
\* update keeps the document's position.

Min(a, b) == IF a < b THEN a ELSE b

EmptyResult == [inserted |-> 0, updated |-> 0, failed |-> 0, errors |-> <<>>]

\* Variant: every accepted operation inserts a new document.
RECURSIVE ApplyOpsInsertOnly(_, _, _, _)
ApplyOpsInsertOnly(acc, batch, W, i) ==
  IF i > Len(batch) THEN acc
  ELSE IF i \in W THEN ApplyOpsInsertOnly(acc, batch, W, i + 1)
  ELSE ApplyOpsInsertOnly([db |-> Append(acc.db, batch[i]),
                           upserted |-> acc.upserted + 1,
                           modified |-> acc.modified],
                          batch, W, i + 1)

\* The write of operation i of an unordered bulk write, unless i is one of
\* the operations W the server rejected.  updateOne with upsert: the
\* document is inserted (upsertedCount) or replaced by $set (modifiedCount:
\* the schema's timestamps option touches updatedAt on every update).
RECURSIVE ApplyOps(_, _, _, _)
ApplyOps(acc, batch, W, i) ==
  IF i > Len(batch) THEN acc
  ELSE IF i \in W THEN ApplyOps(acc, batch, W, i + 1)
  ELSE LET SameKey(x) == x.userId = batch[i].userId
           at == IndexOf(acc.db, SameKey)
       IN ApplyOps(
            IF at = 0
              THEN [db |-> Append(acc.db, batch[i]),
                    upserted |-> acc.upserted + 1,
                    modified |-> acc.modified]
              ELSE [db |-> [acc.db EXCEPT ![at] = batch[i]],
                    upserted |-> acc.upserted,
                    modified |-> acc.modified + 1],
            batch, W, i + 1)

\* insertMany: the documents whose userId is already stored, or occurs
\* earlier in the chunk, violate the unique index on userId.
DuplicateKeys(db, batch) ==
  {i \in 1..Len(batch) :
     \/ \E k \in 1..Len(db) : db[k].userId = batch[i].userId
     \/ \E j \in 1..(i - 1) : batch[j].userId = batch[i].userId}

\* The indices of W in increasing order, as error entries.
RECURSIVE WriteErrorEntries(_, _, _)
WriteErrorEntries(batch, W, i) ==
  IF i > Len(batch) THEN <<>>
  ELSE (IF i \in W THEN <<[userId |-> batch[i].userId]>> ELSE <<>>)
       \o WriteErrorEntries(batch, W, i + 1)

\* One iteration of the loop of loadUserBatch on the chunk `batch`.
\* kind is what the driver does: "ok", "writeErrors" (the operations W are
\* rejected, the others of the unordered write are applied) or "error" (the
\* call fails as a whole, without writeErrors, and nothing is written).
loadChunk(db, result, batch, upsert, kind, W) ==
  LET rejected == IF upsert THEN W ELSE W \cup DuplicateKeys(db, batch)
      written == ApplyOps([db |-> db, upserted |-> 0, modified |-> 0],
                          batch, rejected, 1)
  IN IF kind = "error"
       THEN [db |-> db,
             result |->
               [result EXCEPT
                  !.failed = @ + Len(batch),
                  !.errors = @ \o WriteErrorEntries(batch, 1..Len(batch), 1)]]
     ELSE IF rejected # {}
       THEN [db |-> written.db,
             result |->
               [result EXCEPT
                  !.failed = @ + Len(batch),
                  !.errors = @ \o WriteErrorEntries(batch, rejected, 1)]]
     ELSE [db |-> written.db,
           result |->
             IF upsert
               THEN [result EXCEPT !.inserted = @ + written.upserted,
                                   !.updated = @ + written.modified]
               ELSE [result EXCEPT !.inserted = @ + Len(batch)]]

\* $unwind programs, $group by programs.programId over the user collection:
\* the (document, program position) pairs of one programId.
RECURSIVE Unwound(_, _)
Unwound(db, programId) ==
  IF db = <<>> THEN <<>>
  ELSE LET IsGroup(p) == p.programId = programId
           mine == SelectSeq(Head(db).programs, IsGroup)
       IN [i \in 1..Len(mine) |->
             [programName |-> mine[i].programName,
              totalEngagement |-> Head(db).totalEngagement,
              totalSales |-> Head(db).totalSales]]
          \o Unwound(Tail(db), programId)

RECURSIVE SumField(_, _)
SumField(rows, f) ==
  IF rows = <<>> THEN 0 ELSE Head(rows)[f] + SumField(Tail(rows), f)

\* The programIds of the collection in order of first occurrence.
RECURSIVE GroupKeys(_)
GroupKeys(db) ==
  IF db = <<>> THEN <<>>
  ELSE deduplicatePrograms(Head(db).programs \o GroupKeys(Tail(db)))

programStats(db) ==
  LET keys == GroupKeys(db)
  IN [k \in 1..Len(keys) |->
        LET rows == Unwound(db, keys[k].programId)
        IN [programId |-> keys[k].programId,
            programName |-> rows[1].programName,
            userCount |-> Len(rows),
            totalEngagement |-> SumField(rows, "totalEngagement"),
            totalSales |-> SumField(rows, "totalSales")]]

\* ProgramModel.bulkWrite of one upserting updateOne per aggregate row
RECURSIVE UpsertPrograms(_, _)
UpsertPrograms(rows, stats) ==
  IF stats = <<>> THEN rows
  ELSE LET SameKey(x) == x.programId = Head(stats).programId
           at == IndexOf(rows, SameKey)
       IN UpsertPrograms(
            IF at = 0 THEN Append(rows, Head(stats))
            ELSE [rows EXCEPT ![at] = Head(stats)],
            Tail(stats))

\* ---------------------------------------------------------- extractor
\* A file is its content class and, when it can be parsed, the value it
\* holds: "valid" parses at once, "missingBrace" ends with ']' and parses
\* once '\n}' is appended, "brokenArray" ends with ']' and stays unparsable
\* after the repair, "broken" is unparsable and gets no repair.
extractFile(file) ==
  CASE file.kind = "valid" -> [found |-> TRUE, data |-> file.data]
    [] file.kind = "missingBrace" -> [found |-> TRUE, data |-> file.data]
    [] file.kind = "brokenArray" -> [found |-> FALSE]
    [] OTHER -> [found |-> FALSE]

\* ------------------------------------------------------------- inputs
RawTask(id, platform, likes) ==
  [task_id |-> id, platform |-> platform, post_url |-> Absent,
   likes |-> likes, comments |-> Absent, shares |-> NullV, reach |-> Absent]

RawProgram(id, brand, tasks, sales) ==
  [program_id |-> id, brand |-> brand, tasks_completed |-> tasks,
   total_sales_attributed |-> sales]

RawUser(id, name, email, ig, tt, joined, programs) ==
  [user_id |-> id, name |-> name, email |-> email, instagram_handle |-> ig,
   tiktok_handle |-> tt, joined_at |-> joined, advocacy_programs |-> programs]

\* u1 with one program, one post (2 likes) and 5 of sales: score 17.
FileA ==
  [kind |-> "valid",
   data |-> RawUser(Str(<<"u", "1">>), Str(<<"A">>), Absent, Absent, Absent,
                    Absent,
                    Arr(<<RawProgram(Str(<<"p", "1">>), Str(<<"X">>),
                                     Arr(<<RawTask(Str(<<"t", "1">>),
                                                   Str(<<"I", "n", "s", "t", "a",
                                                         "g", "r", "a", "m">>),
                                                   Num(2))>>),
                                     Num(5))>>))]

\* u1 again, with every scalar field and two handles but no sales: score 12.
FileC ==
  [kind |-> "valid",
   data |-> RawUser(Str(<<"u", "1">>), Str(<<"C">>), Str(<<"c", "@", "d">>),
                    Str(<<"@", "C">>), Str(<<"c">>), Str(<<"2", "0", "2", "4">>),
                    Arr(<<RawProgram(Str(<<"p", "2">>), Str(<<"Y">>),
                                     Arr(<<RawTask(Str(<<"t", "2">>),
                                                   Str(tiktok),
                                                   Str(<<"1">>))>>),
                                     Str(<<"n", "o">>))>>))]

\* u2, a record without programs, in a file that lacks its closing brace.
FileD ==
  [kind |-> "missingBrace",
   data |-> RawUser(Num(2), Str(<<"D">>), NullV, NullV, Absent, Num(7),
                    Arr(<<>>))]

\* A record without identifiers: user, program and task ids are generated.
FileN ==
  [kind |-> "valid",
   data |-> RawUser(NullV, NullV, NullV, NullV, NullV, NullV,
                    Arr(<<RawProgram(NullV, NullV,
                                     Arr(<<RawTask(NullV, NullV,
                                                   Str(<<"n", "o">>))>>),
                                     NullV)>>))]

\* A record the flexible schema rejects (name is a number, the programs a
\* string).
FileV ==
  [kind |-> "valid",
   data |-> RawUser(Absent, Num(123), Absent, Absent, Absent, Absent,
                    NoArr("str"))]

\* A file that cannot be parsed, also after the repair attempt.
FileX == [kind |-> "brokenArray"]

\* The files a directory may hold, by content; a listing names the content
\* of each of its files, so one content may occur in several files.
FileUniverse == {"A", "C", "D", "N", "V", "X"}

\* u1 without a name, with the post t1 of FileA at 3 likes and 5 of sales in
\* another program: score 17, as FileA.
FileB ==
  [kind |-> "valid",
   data |-> RawUser(Str(<<"u", "1">>), NullV, Absent, Absent, Absent, Absent,
                    Arr(<<RawProgram(Str(<<"p", "3">>), Str(<<"Y">>),
                                     Arr(<<RawTask(Str(<<"t", "1">>),
                                                   Str(tiktok), Num(3))>>),
                                     Num(5))>>))]

\* u1 with the program p1 listed twice, with 2 and 3 of sales: score 22.
FileE ==
  [kind |-> "valid",
   data |-> RawUser(Str(<<"u", "1">>), Str(<<"E">>), Absent, Absent, Absent,
                    Absent,
                    Arr(<<RawProgram(Str(<<"p", "1">>), Str(<<"X">>), Absent,
                                     Num(2)),
                          RawProgram(Str(<<"p", "1">>), Str(<<"X">>), Absent,
                                     Num(3))>>))]

\* The files whose records meet in one batch, by content.
MergeFiles == {"A", "B", "C", "E"}

MergeListings == UNION {[1..n -> MergeFiles] : n \in 1..MaxBatchSize}

\* Records that vary the fields of the user.
RawUserLevel ==
  {RawUser(id, name, email, ig, Absent, joined, programs) :
     id \in {Absent, NullV, Str(<<" ">>), Str(<<"u", "1">>), Num(2)},
     name \in {NullV, Str(<<"A">>)},
     email \in {Absent, Str(<<>>), Str(<<"c", "@", "d">>)},
     ig \in {Absent, Str(<<"@", "C">>), Str(<<" ", "@", "C">>), Str(<<"@">>),
             Num(5)},
     joined \in {Absent, Num(7)},
     programs \in {NoArr("null"), NoArr("str"), Arr(<<>>),
                   Arr(<<RawProgram(Str(<<"p", "1">>), Str(<<"X">>), Absent,
                                    Num(5))>>)}}

\* Records of u1 that vary the fields of their one program, which has one
\* task.
RawProgramLevel ==
  {RawUser(Str(<<"u", "1">>), Str(<<"A">>), Absent, Absent, Absent, Absent,
           Arr(<<RawProgram(id, brand,
                            Arr(<<RawTask(Str(<<"t", "1">>), Absent, Num(2))>>),
                            sales)>>)) :
     id \in {NullV, Str(<<" ">>), Str(<<"p", "1">>), Num(3)},
     brand \in {Absent, NullV, Str(<<>>), Str(<<" ">>), Str(<<"X">>),
                Str(UnknownProgram), Num(4)},
     sales \in {Absent, NullV, Num(5), Num(0), Num(0 - 1), Str(<<"5">>),
                Str(<<"n", "o">>)}}

\* Records of u1 that vary the fields of their one task.
RawTaskLevel ==
  {RawUser(Str(<<"u", "1">>), Str(<<"A">>), Absent, Absent, Absent, Absent,
           Arr(<<RawProgram(
                   Str(<<"p", "1">>), Str(<<"X">>),
                   Arr(<<[RawTask(id, platform, likes) EXCEPT
                            !.post_url = url, !.comments = comments,
                            !.reach = reach]>>),
                   Num(5))>>)) :
     id \in {NullV, Str(<<"t", "1">>), Num(9)},
     platform \in {Absent, Str(<<"T", "i", "k", "T", "o", "k", " ">>),
                   Str(<<"z", "z">>)},
     likes \in {Absent, NullV, Num(2), Num(0 - 1), Str(<<"3">>),
                Str(<<"n", "o">>)},
     url \in {Absent, Num(8)},
     comments \in {Absent, Num(1)},
     reach \in {Str(<<"n", "o">>), Num(4)}}

RawRecords == RawUserLevel \cup RawProgramLevel \cup RawTaskLevel

\* The directory listings explored: every sequence of at most MaxFiles files.
Listings == UNION {[1..n -> FileUniverse] : n \in 0..MaxFiles}

\* A user and an aggregate row left in the database by an earlier run.
OldUser ==
  [userId |-> <<"u", "0">>, name |-> <<"O">>, email |-> <<>>,
   socialHandles |-> <<>>,
   programs |-> <<[programId |-> <<"p", "0">>, programName |-> <<"Z">>]>>,
   posts |-> <<>>, salesAttributions |-> <<>>, joinDate |-> NoDate,
   totalEngagement |-> 0, totalSales |-> 0]

OldProgram ==
  [programId |-> <<"p", "9">>, programName |-> <<"W">>, userCount |-> 1,
   totalEngagement |-> 3, totalSales |-> 4]

\* -------------------------------------------------------------- state
VARIABLES
  pc,                 \* where runPipeline (or a lone loadUserBatch) stands
  options,            \* PipelineOptions: batchSize, cleanDatabase
  files,              \* filesToProcess of extractFiles
  idx,                \* number of files extractFiles has gone through
  statistics,         \* ETLStatistics (the counters)
  currentBatch,       \* the batch buffer
  processedUserIds,   \* the run-scoped set of identifiers
  genSeq,             \* number of transformUser calls made so far
  dedup,              \* argument and result of the last deduplicateUsers call
  load,               \* the frame of the running loadUserBatch call
  userCollection,     \* UserModel's documents
  programCollection,  \* ProgramModel's documents
  calls,              \* the calls made to the loader and the database, in order
  thrown,             \* an error is propagating to the caller
  outcome,            \* "pending", or how runPipeline settled
  error,              \* "none", or the operation whose error runPipeline holds
  rawData,            \* the record of the file "raw"
  firstCall           \* what the first of two calls (of loadUserBatch, or of
                      \* runPipeline) left

vars ==
  <<pc, options, files, idx, statistics, currentBatch, processedUserIds,
    genSeq, dedup, load, userCollection, programCollection, calls, thrown,
    outcome, error, rawData, firstCall>>

Call(op, us) == [op |-> op, users |-> us]

NoLoad ==
  [users |-> <<>>, i |-> 0, batchSize |-> 1, upsert |-> TRUE,
   result |-> EmptyResult, ret |-> "none"]

\* The record {} and the state before any loadUserBatch call has returned.
NoRaw ==
  RawUser(Absent, Absent, Absent, Absent, Absent, Absent, NoArr("absent"))

NoFirstCall == [done |-> FALSE, stored |-> <<>>, result |-> EmptyResult]

\* fs.readFile of a file of the listing; the file "raw" holds rawData.
FileContent(name) ==
  CASE name = "raw" -> [kind |-> "valid", data |-> rawData]
    [] name = "A" -> FileA
    [] name = "B" -> FileB
    [] name = "C" -> FileC
    [] name = "D" -> FileD
    [] name = "E" -> FileE
    [] name = "N" -> FileN
    [] name = "V" -> FileV
    [] OTHER -> FileX

NoDedup == [input |-> <<>>, output |-> <<>>]

ZeroStatistics ==
  [totalFiles |-> 0, processedFiles |-> 0, successfulRecords |-> 0,
   failedRecords |-> 0, validationErrors |-> 0, cleanRecords |-> 0,
   messyRecords |-> 0]

\* The database a run starts on: it holds the documents of an earlier run
\* (the empty database is the one cleanDatabase leaves).
InitialDatabases ==
  {[users |-> <<OldUser>>,
    programs |-> <<OldProgram,
                   [programId |-> <<"p", "0">>, programName |-> <<"Z">>,
                    userCount |-> 1, totalEngagement |-> 0,
                    totalSales |-> 0]>>]}

Init ==
  /\ pc = "idle"
  /\ options \in [batchSize : 1..MaxBatchSize, cleanDatabase : BOOLEAN]
  /\ files = <<>>
  /\ idx = 0
  /\ statistics = ZeroStatistics
  /\ currentBatch = <<>>
  /\ processedUserIds = {}
  /\ genSeq = 0
  /\ dedup = NoDedup
  /\ load = NoLoad
  /\ \E d \in InitialDatabases :
       userCollection = d.users /\ programCollection = d.programs
  /\ calls = <<>>
  /\ thrown = FALSE
  /\ outcome = "pending"
  /\ error = "none"
  /\ rawData = NoRaw
  /\ firstCall = NoFirstCall

\* ------------------------------------------------- runPipeline: set-up
\* validateEnv() and the statistics record, before the try block.
StartOk ==
  /\ pc = "idle"
  /\ pc' = "connect"
  /\ UNCHANGED <<options, files, idx, statistics, currentBatch,
                 processedUserIds, genSeq, dedup, load, userCollection,
                 programCollection, calls, thrown, outcome,
                 error, rawData, firstCall>>

\* validateEnv() throws outside the try block: nothing is connected.
StartEnvInvalid ==
  /\ pc = "idle"
  /\ pc' = "done"
  /\ outcome' = "rejected"
  /\ error' = "validateEnv"
  /\ UNCHANGED <<options, files, idx, statistics, currentBatch,
                 processedUserIds, genSeq, dedup, load, userCollection,
                 programCollection, calls, thrown,
                 rawData, firstCall>>

AfterConnect == IF options.cleanDatabase THEN "clean" ELSE "open"

ConnectOk ==
  /\ pc = "connect"
  /\ calls' = Append(calls, Call("connectDB", <<>>))
  /\ pc' = AfterConnect
  /\ UNCHANGED <<options, files, idx, statistics, currentBatch,
                 processedUserIds, genSeq, dedup, load, userCollection,
                 programCollection, thrown, outcome,
                 error, rawData, firstCall>>

\* Variant: an error leaves runPipeline from the catch block.
OnThrowNoFinally == "done"

\* The landing place of an error thrown inside the try block: the catch
\* block rethrows and the finally block runs.
OnThrow == "finally"

ConnectFail ==
  /\ pc = "connect"
  /\ calls' = Append(calls, Call("connectDB", <<>>))
  /\ thrown' = TRUE
  /\ error' = "connectDB"
  /\ pc' = OnThrow
  /\ UNCHANGED <<options, files, idx, statistics, currentBatch,
                 processedUserIds, genSeq, dedup, load, userCollection,
                 programCollection, outcome,
                 rawData, firstCall>>

CleanOk ==
  /\ pc = "clean"
  /\ calls' = Append(calls, Call("cleanDatabase", <<>>))
  /\ userCollection' = <<>>
  /\ programCollection' = <<>>
  /\ pc' = "open"
  /\ UNCHANGED <<options, files, idx, statistics, currentBatch,
                 processedUserIds, genSeq, dedup, load, thrown, outcome,
                 error, rawData, firstCall>>

\* Promise.all of the two deleteMany calls rejects: at least one of them
\* failed, the other may have emptied its collection.
CleanFail ==
  /\ pc = "clean"
  /\ calls' = Append(calls, Call("cleanDatabase", <<>>))
  /\ \/ UNCHANGED <<userCollection, programCollection>>
     \/ userCollection' = <<>> /\ UNCHANGED programCollection
     \/ programCollection' = <<>> /\ UNCHANGED userCollection
  /\ thrown' = TRUE
  /\ error' = "cleanDatabase"
  /\ pc' = OnThrow
  /\ UNCHANGED <<options, files, idx, statistics, currentBatch,
                 processedUserIds, genSeq, dedup, load, outcome,
                 rawData, firstCall>>

\* extractFiles: fs.access succeeds and getJsonFiles lists the directory
\* (options.maxFiles is not given).
OpenDirOk ==
  /\ pc = "open"
  /\ files' \in (IF firstCall.done THEN {files} ELSE Listings)
  /\ idx' = 0
  /\ pc' = "stream"
  /\ UNCHANGED <<options, statistics, currentBatch, processedUserIds, genSeq,
                 dedup, load, userCollection, programCollection, calls,
                 thrown, outcome,
                 error, rawData, firstCall>>

\* extractFiles throws 'Data directory not found' before its first item.
OpenDirMissing ==
  /\ pc = "open"
  /\ thrown' = TRUE
  /\ error' = "extractFiles"
  /\ pc' = OnThrow
  /\ UNCHANGED <<options, files, idx, statistics, currentBatch,
                 processedUserIds, genSeq, dedup, load, userCollection,
                 programCollection, calls, outcome,
                 rawData, firstCall>>

\* ----------------------------------------------- runPipeline: streaming
Current == FileContent(files[idx + 1])
Extracted == extractFile(Current)
validationResult == validateUser(Extracted.data)
transformed == transformUser(validationResult.data, genSeq + 1)

\* The statistics after the item has been counted and classified.
\* Variant: an accepted item is not counted in totalFiles.
ClassifiedUncounted ==
  IF validationResult.isClean
    THEN [statistics EXCEPT !.cleanRecords = @ + 1]
    ELSE [statistics EXCEPT !.messyRecords = @ + 1]

\* Variant: a record that is not clean counts as a validation error.
ClassifiedMessyAsError ==
  IF validationResult.isClean
    THEN [statistics EXCEPT !.totalFiles = @ + 1, !.cleanRecords = @ + 1]
    ELSE [statistics EXCEPT !.totalFiles = @ + 1, !.validationErrors = @ + 1]

Classified ==
  IF validationResult.isClean
    THEN [statistics EXCEPT !.totalFiles = @ + 1, !.cleanRecords = @ + 1]
    ELSE [statistics EXCEPT !.totalFiles = @ + 1, !.messyRecords = @ + 1]

\* Variant: the deduplicated batch is loaded without the filter.
NewUsersUnfiltered(deduplicatedBatch) == deduplicatedBatch

\* deduplicatedBatch.filter((user) => !processedUserIds.has(user.userId))
NewUsers(deduplicatedBatch) ==
  LET NotProcessed(user) == user.userId \notin processedUserIds
  IN SelectSeq(deduplicatedBatch, NotProcessed)

UserIds(us) == {us[i].userId : i \in 1..Len(us)}

\* newUsers.forEach(recalculateTotals)
Recalculated(newUsers) ==
  [i \in 1..Len(newUsers) |-> recalculateTotals(newUsers[i])]

\* The frame of loadUserBatch(newUsers, {batchSize, upsert: true})
LoadCall(newUsers, ret) ==
  [users |-> Recalculated(newUsers), i |-> 0, batchSize |-> options.batchSize,
   upsert |-> TRUE, result |-> EmptyResult, ret |-> ret]

\* extractFile returned null: extractFiles yields nothing for this file.
SkipUnparsable ==
  /\ pc = "stream"
  /\ idx < Len(files)
  /\ ~Extracted.found
  /\ idx' = idx + 1
  /\ UNCHANGED <<pc, options, files, statistics, currentBatch,
                 processedUserIds, genSeq, dedup, load, userCollection,
                 programCollection, calls, thrown, outcome,
                 error, rawData, firstCall>>

\* Variant: a rejected item is not counted as a failed record.
RejectInvalidNotFailed ==
  /\ pc = "stream"
  /\ idx < Len(files)
  /\ Extracted.found
  /\ ~validationResult.success
  /\ statistics' = [statistics EXCEPT !.totalFiles = @ + 1,
                                      !.validationErrors = @ + 1]
  /\ idx' = idx + 1
  /\ UNCHANGED <<pc, options, files, currentBatch, processedUserIds, genSeq,
                 dedup, load, userCollection, programCollection, calls,
                 thrown, outcome,
                 error, rawData, firstCall>>

\* The loop body for an item that validateUser rejects (`continue`).
RejectInvalid ==
  /\ pc = "stream"
  /\ idx < Len(files)
  /\ Extracted.found
  /\ ~validationResult.success
  /\ statistics' = [statistics EXCEPT !.totalFiles = @ + 1,
                                      !.validationErrors = @ + 1,
                                      !.failedRecords = @ + 1]
  /\ idx' = idx + 1
  /\ UNCHANGED <<pc, options, files, currentBatch, processedUserIds, genSeq,
                 dedup, load, userCollection, programCollection, calls,
                 thrown, outcome,
                 error, rawData, firstCall>>

\* The loop body for an accepted item that leaves the batch below batchSize.
AcceptBuffer ==
  /\ pc = "stream"
  /\ idx < Len(files)
  /\ Extracted.found
  /\ validationResult.success
  /\ Len(currentBatch) + 1 < options.batchSize
  /\ currentBatch' = Append(currentBatch, transformed)
  /\ genSeq' = genSeq + 1
  /\ statistics' = [Classified EXCEPT !.processedFiles = @ + 1]
  /\ idx' = idx + 1
  /\ UNCHANGED <<pc, options, files, processedUserIds, dedup, load,
                 userCollection, programCollection, calls, thrown, outcome,
                 error, rawData, firstCall>>

\* The loop body for an accepted item that fills the batch, up to the await
\* of loadUserBatch.
AcceptFlushLoad ==
  /\ pc = "stream"
  /\ idx < Len(files)
  /\ Extracted.found
  /\ validationResult.success
  /\ Len(currentBatch) + 1 >= options.batchSize
  /\ LET batch == Append(currentBatch, transformed)
         deduplicatedBatch == deduplicateUsers(batch)
         newUsers == NewUsers(deduplicatedBatch)
     IN /\ Len(newUsers) > 0
        /\ currentBatch' = batch
        /\ dedup' = [input |-> batch, output |-> deduplicatedBatch]
        /\ processedUserIds' = processedUserIds \cup UserIds(newUsers)
        /\ load' = LoadCall(newUsers, "stream")
        /\ calls' = Append(calls, Call("loadUserBatch", load'.users))
  /\ genSeq' = genSeq + 1
  /\ statistics' = Classified
  /\ pc' = "load"
  /\ UNCHANGED <<options, files, idx, userCollection, programCollection,
                 thrown, outcome,
                 error, rawData, firstCall>>

\* The loop body for an accepted item that fills the batch when every
\* deduplicated entity was processed in an earlier batch: no load call.
AcceptFlushSkip ==
  /\ pc = "stream"
  /\ idx < Len(files)
  /\ Extracted.found
  /\ validationResult.success
  /\ Len(currentBatch) + 1 >= options.batchSize
  /\ LET batch == Append(currentBatch, transformed)
         deduplicatedBatch == deduplicateUsers(batch)
         newUsers == NewUsers(deduplicatedBatch)
     IN /\ Len(newUsers) = 0
        /\ dedup' = [input |-> batch, output |-> deduplicatedBatch]
  /\ currentBatch' = <<>>
  /\ genSeq' = genSeq + 1
  /\ statistics' = [Classified EXCEPT !.processedFiles = @ + 1]
  /\ idx' = idx + 1
  /\ UNCHANGED <<pc, options, files, processedUserIds, load, userCollection,
                 programCollection, calls, thrown, outcome,
                 error, rawData, firstCall>>

\* Variant: the batch is kept after the load.
LoadReturnStreamKeepsBatch ==
  /\ pc = "load"
  /\ load.ret = "stream"
  /\ load.i >= Len(load.users)
  /\ statistics' =
       [statistics EXCEPT
          !.successfulRecords = @ + load.result.inserted + load.result.updated,
          !.failedRecords = @ + load.result.failed,
          !.processedFiles = @ + 1]
  /\ idx' = idx + 1
  /\ pc' = "stream"
  /\ UNCHANGED <<options, files, currentBatch, processedUserIds, genSeq,
                 dedup, load, userCollection, programCollection, calls,
                 thrown, outcome, error, rawData, firstCall>>

\* The rest of the loop body once loadUserBatch has resolved.
LoadReturnStream ==
  /\ pc = "load"
  /\ load.ret = "stream"
  /\ load.i >= Len(load.users)
  /\ statistics' =
       [statistics EXCEPT
          !.successfulRecords = @ + load.result.inserted + load.result.updated,
          !.failedRecords = @ + load.result.failed,
          !.processedFiles = @ + 1]
  /\ currentBatch' = <<>>
  /\ idx' = idx + 1
  /\ pc' = "stream"
  /\ UNCHANGED <<options, files, processedUserIds, genSeq, dedup, load,
                 userCollection, programCollection, calls, thrown, outcome,
                 error, rawData, firstCall>>

\* After the loop: the remaining batch is loaded.
FinalFlushLoad ==
  /\ pc = "stream"
  /\ idx = Len(files)
  /\ Len(currentBatch) > 0
  /\ LET deduplicatedBatch == deduplicateUsers(currentBatch)
         newUsers == NewUsers(deduplicatedBatch)
     IN /\ Len(newUsers) > 0
        /\ dedup' = [input |-> currentBatch, output |-> deduplicatedBatch]
        /\ processedUserIds' = processedUserIds \cup UserIds(newUsers)
        /\ load' = LoadCall(newUsers, "final")
        /\ calls' = Append(calls, Call("loadUserBatch", load'.users))
  /\ pc' = "load"
  /\ UNCHANGED <<options, files, idx, statistics, currentBatch, genSeq,
                 userCollection, programCollection, thrown, outcome,
                 error, rawData, firstCall>>

\* After the loop: the remaining batch holds only processed identifiers.
FinalFlushSkip ==
  /\ pc = "stream"
  /\ idx = Len(files)
  /\ Len(currentBatch) > 0
  /\ LET deduplicatedBatch == deduplicateUsers(currentBatch)
     IN /\ Len(NewUsers(deduplicatedBatch)) = 0
        /\ dedup' = [input |-> currentBatch, output |-> deduplicatedBatch]
  /\ pc' = "aggregate"
  /\ UNCHANGED <<options, files, idx, statistics, currentBatch,
                 processedUserIds, genSeq, load, userCollection,
                 programCollection, calls, thrown, outcome,
                 error, rawData, firstCall>>

\* Variant: without a remaining batch the aggregation is passed over.
FinalFlushNoneNoStats ==
  /\ pc = "stream"
  /\ idx = Len(files)
  /\ Len(currentBatch) = 0
  /\ pc' = "finally"
  /\ UNCHANGED <<options, files, idx, statistics, currentBatch,
                 processedUserIds, genSeq, dedup, load, userCollection,
                 programCollection, calls, thrown, outcome,
                 error, rawData, firstCall>>

\* After the loop: no batch remains.
FinalFlushNone ==
  /\ pc = "stream"
  /\ idx = Len(files)
  /\ Len(currentBatch) = 0
  /\ pc' = "aggregate"
  /\ UNCHANGED <<options, files, idx, statistics, currentBatch,
                 processedUserIds, genSeq, dedup, load, userCollection,
                 programCollection, calls, thrown, outcome,
                 error, rawData, firstCall>>

LoadReturnFinal ==
  /\ pc = "load"
  /\ load.ret = "final"
  /\ load.i >= Len(load.users)
  /\ statistics' =
       [statistics EXCEPT
          !.successfulRecords = @ + load.result.inserted + load.result.updated,
          !.failedRecords = @ + load.result.failed]
  /\ pc' = "aggregate"
  /\ UNCHANGED <<options, files, idx, currentBatch, processedUserIds, genSeq,
                 dedup, load, userCollection, programCollection, calls,
                 thrown, outcome,
                 error, rawData, firstCall>>

\* ------------------------------------------------ loadUserBatch: the loop
\* users.slice(i, i + batchSize)
Chunk ==
  SubSeq(load.users, load.i + 1, Min(load.i + load.batchSize, Len(load.users)))

WriteCall == Call(IF load.upsert THEN "bulkWrite" ELSE "insertMany", Chunk)

\* Variant: the loop counter advances by one.
NextIndexByOne == load.i + 1

\* The step of the loop counter: i += batchSize
NextIndex == load.i + load.batchSize

LoadChunkStep(kind, W) ==
  LET done == loadChunk(userCollection, load.result, Chunk, load.upsert,
                        kind, W)
  IN /\ userCollection' = done.db
     /\ load' = [load EXCEPT !.i = NextIndex, !.result = done.result]
     /\ calls' = Append(calls, WriteCall)
     /\ UNCHANGED <<pc, options, files, idx, statistics, currentBatch,
                    processedUserIds, genSeq, dedup, programCollection,
                    thrown, outcome,
                    error, rawData, firstCall>>

\* One iteration whose bulk write the driver accepts (an insertMany still
\* fails on its own when the chunk violates the unique index).
LoadChunkOk ==
  /\ pc = "load"
  /\ load.i < Len(load.users)
  /\ LoadChunkStep("ok", {})

\* One iteration whose bulk write fails with writeErrors for the operations
\* W of the chunk.
LoadChunkWriteErrors ==
  /\ pc = "load"
  /\ load.i < Len(load.users)
  /\ \E W \in (SUBSET (1..Len(Chunk))) \ {{}} : LoadChunkStep("writeErrors", W)

\* One iteration whose bulk write fails as a whole.
LoadChunkError ==
  /\ pc = "load"
  /\ load.i < Len(load.users)
  /\ LoadChunkStep("error", {})

\* loadUserBatch called on its own returns its result to the caller.
LoadReturnCaller ==
  /\ pc = "load"
  /\ load.ret = "caller"
  /\ load.i >= Len(load.users)
  /\ pc' = "loaded"
  /\ UNCHANGED <<options, files, idx, statistics, currentBatch,
                 processedUserIds, genSeq, dedup, load, userCollection,
                 programCollection, calls, thrown, outcome,
                 error, rawData, firstCall>>

\* ------------------------------------- runPipeline: aggregate and finally
UpdateStatsOk ==
  /\ pc = "aggregate"
  /\ calls' = Append(calls, Call("updateProgramStats", <<>>))
  /\ programCollection' =
       UpsertPrograms(programCollection, programStats(userCollection))
  /\ pc' = "finally"
  /\ UNCHANGED <<options, files, idx, statistics, currentBatch,
                 processedUserIds, genSeq, dedup, load, userCollection,
                 thrown, outcome,
                 error, rawData, firstCall>>

\* updateProgramStats rethrows what the aggregation or the bulk write threw.
UpdateStatsFail ==
  /\ pc = "aggregate"
  /\ calls' = Append(calls, Call("updateProgramStats", <<>>))
  /\ thrown' = TRUE
  /\ error' = "updateProgramStats"
  /\ pc' = OnThrow
  /\ UNCHANGED <<options, files, idx, statistics, currentBatch,
                 processedUserIds, genSeq, dedup, load, userCollection,
                 programCollection, outcome,
                 rawData, firstCall>>

\* finally { await disconnectDB() }
DisconnectOk ==
  /\ pc = "finally"
  /\ calls' = Append(calls, Call("disconnectDB", <<>>))
  /\ outcome' = IF thrown THEN "rejected" ELSE "returned"
  /\ pc' = "done"
  /\ UNCHANGED <<options, files, idx, statistics, currentBatch,
                 processedUserIds, genSeq, dedup, load, userCollection,
                 programCollection, thrown,
                 error, rawData, firstCall>>

\* disconnectDB rethrows: runPipeline rejects with its error.
DisconnectFail ==
  /\ pc = "finally"
  /\ calls' = Append(calls, Call("disconnectDB", <<>>))
  /\ outcome' = "rejected"
  /\ thrown' = TRUE
  /\ error' = "disconnectDB"
  /\ pc' = "done"
  /\ UNCHANGED <<options, files, idx, statistics, currentBatch,
                 processedUserIds, genSeq, dedup, load, userCollection,
                 programCollection,
                 rawData, firstCall>>

Next ==
  \/ StartOk
  \/ StartEnvInvalid
  \/ ConnectOk
  \/ ConnectFail
  \/ CleanOk
  \/ CleanFail
  \/ OpenDirOk
  \/ OpenDirMissing
  \/ SkipUnparsable
  \/ RejectInvalid
  \/ AcceptBuffer
  \/ AcceptFlushLoad
  \/ AcceptFlushSkip
  \/ LoadChunkOk
  \/ LoadChunkWriteErrors
  \/ LoadChunkError
  \/ LoadReturnStream
  \/ FinalFlushLoad
  \/ FinalFlushSkip
  \/ FinalFlushNone
  \/ LoadReturnFinal
  \/ UpdateStatsOk
  \/ UpdateStatsFail
  \/ DisconnectOk
  \/ DisconnectFail

Spec == Init /\ [][Next]_vars

\* ------------------------------------- loadUserBatch called on its own
\* The entities of the records of FileA (u1) and FileD (u2).
LoadEntities ==
  {transformUser(validateUser(f.data).data, 1) : f \in {FileA, FileD}}

LoadLists == UNION {[1..n -> LoadEntities] : n \in 0..MaxLoadUsers}

InitLoad ==
  /\ pc = "load"
  /\ options \in [batchSize : 1..MaxBatchSize, cleanDatabase : {FALSE}]
  /\ \E us \in LoadLists, upsert \in BOOLEAN :
       load = [users |-> us, i |-> 0, batchSize |-> options.batchSize,
               upsert |-> upsert, result |-> EmptyResult, ret |-> "caller"]
  /\ files = <<>>
  /\ idx = 0
  /\ statistics = ZeroStatistics
  /\ currentBatch = <<>>
  /\ processedUserIds = {}
  /\ genSeq = 0
  /\ dedup = NoDedup
  /\ userCollection \in {<<>>, <<recalculateTotals(
                                    transformUser(validateUser(FileC.data).data,
                                                  1))>>}
  /\ programCollection = <<>>
  /\ calls = <<>>
  /\ thrown = FALSE
  /\ outcome = "pending"
  /\ error = "none"
  /\ rawData = NoRaw
  /\ firstCall = NoFirstCall

NextLoad ==
  \/ LoadChunkOk
  \/ LoadChunkWriteErrors
  \/ LoadChunkError
  \/ LoadReturnCaller

SpecLoad == InitLoad /\ [][NextLoad]_vars

\* ------------------------------- loadUserBatch called twice on one list
\* The caller keeps what the first call left and calls loadUserBatch again
\* with the same users and options: i and result start afresh.
LoadAgain ==
  /\ pc = "loaded"
  /\ ~firstCall.done
  /\ firstCall' = [done |-> TRUE, stored |-> userCollection,
                   result |-> load.result]
  /\ load' = [load EXCEPT !.i = 0, !.result = EmptyResult]
  /\ pc' = "load"
  /\ UNCHANGED <<options, files, idx, statistics, currentBatch,
                 processedUserIds, genSeq, dedup, userCollection,
                 programCollection, calls, thrown, outcome, error, rawData>>

NextLoadTwice ==
  \/ LoadChunkOk
  \/ LoadChunkWriteErrors
  \/ LoadChunkError
  \/ LoadReturnCaller
  \/ LoadAgain

SpecLoadTwice == InitLoad /\ [][NextLoadTwice]_vars

\* ----------------------------- updateProgramStats on a loaded collection
\* The entities runPipeline loads for the records A, B, C, D and E when the
\* record is alone in its batch.
StatsEntities ==
  {recalculateTotals(transformUser(validateUser(f.data).data, 1)) :
     f \in {FileA, FileB, FileC, FileD, FileE}}

\* The user collections: the unique index allows one document per userId.
StatsCollections ==
  {us \in UNION {[1..n -> StatsEntities] : n \in 0..MaxLoadUsers} :
     \A i, j \in 1..Len(us) : us[i].userId = us[j].userId => i = j}

InitStats ==
  /\ pc = "aggregate"
  /\ options = [batchSize |-> MaxBatchSize, cleanDatabase |-> FALSE]
  /\ files = <<>>
  /\ idx = 0
  /\ statistics = ZeroStatistics
  /\ currentBatch = <<>>
  /\ processedUserIds = {}
  /\ genSeq = 0
  /\ dedup = NoDedup
  /\ load = NoLoad
  /\ userCollection \in StatsCollections
  /\ programCollection \in {<<>>, <<OldProgram>>}
  /\ calls = <<>>
  /\ thrown = FALSE
  /\ outcome = "pending"
  /\ error = "none"
  /\ rawData = NoRaw
  /\ firstCall = NoFirstCall

NextStats ==
  \/ UpdateStatsOk
  \/ UpdateStatsFail
  \/ DisconnectOk
  \/ DisconnectFail

SpecStats == InitStats /\ [][NextStats]_vars

\* ------------------------------ runPipeline twice over one directory
\* The caller keeps what a run without cleanDatabase left, after it returned
\* with every load persisted, and calls runPipeline again: the directory is
\* unchanged (OpenDirOk lists the same files), the statistics, the batch and
\* the processed set start afresh, and the generated identifiers go on from
\* the process's clock.
RunAgain ==
  /\ pc = "done"
  /\ outcome = "returned"
  /\ statistics.failedRecords = statistics.validationErrors
  /\ ~firstCall.done
  /\ firstCall' = [done |-> TRUE, stored |-> userCollection,
                   result |-> EmptyResult]
  /\ pc' = "idle"
  /\ idx' = 0
  /\ statistics' = ZeroStatistics
  /\ currentBatch' = <<>>
  /\ processedUserIds' = {}
  /\ dedup' = NoDedup
  /\ load' = NoLoad
  /\ calls' = <<>>
  /\ thrown' = FALSE
  /\ outcome' = "pending"
  /\ error' = "none"
  /\ UNCHANGED <<options, files, genSeq, userCollection, programCollection,
                 rawData>>

InitTwice == Init /\ ~options.cleanDatabase

NextTwice ==
  \/ StartOk
  \/ StartEnvInvalid
  \/ ConnectOk
  \/ ConnectFail
  \/ OpenDirOk
  \/ OpenDirMissing
  \/ SkipUnparsable
  \/ RejectInvalid
  \/ AcceptBuffer
  \/ AcceptFlushLoad
  \/ AcceptFlushSkip
  \/ LoadChunkOk
  \/ LoadChunkWriteErrors
  \/ LoadChunkError
  \/ LoadReturnStream
  \/ FinalFlushLoad
  \/ FinalFlushSkip
  \/ FinalFlushNone
  \/ LoadReturnFinal
  \/ UpdateStatsOk
  \/ UpdateStatsFail
  \/ DisconnectOk
  \/ DisconnectFail
  \/ RunAgain

SpecTwice == InitTwice /\ [][NextTwice]_vars

\* ------------------- validateUser, transformUser, deduplicateUsers alone
\* transformUser called on the record as it was read, without validateUser.
TransformDirect ==
  /\ pc = "direct"
  /\ IF transformUserThrows(rawData)
       THEN /\ pc' = "threw"
            /\ UNCHANGED <<currentBatch, genSeq>>
       ELSE /\ pc' = "transformed"
            /\ currentBatch' = <<transformUser(rawData, genSeq + 1)>>
            /\ genSeq' = genSeq + 1
  /\ UNCHANGED <<options, files, idx, statistics, processedUserIds, dedup,
                 load, userCollection, programCollection, calls, thrown,
                 outcome, error, rawData, firstCall>>

\* The stream over one file holding any record of RawRecords, the direct
\* call of transformUser on such a record, or the stream over files whose
\* records meet in one batch.
InitFunctions ==
  /\ options = [batchSize |-> MaxBatchSize, cleanDatabase |-> FALSE]
  /\ \/ /\ pc \in {"stream", "direct"}
        /\ files = <<"raw">>
        /\ rawData \in RawRecords
     \/ /\ pc = "stream"
        /\ files \in MergeListings
        /\ rawData = NoRaw
  /\ idx = 0
  /\ statistics = ZeroStatistics
  /\ currentBatch = <<>>
  /\ processedUserIds = {}
  /\ genSeq = 0
  /\ dedup = NoDedup
  /\ load = NoLoad
  /\ userCollection = <<>>
  /\ programCollection = <<>>
  /\ calls = <<>>
  /\ thrown = FALSE
  /\ outcome = "pending"
  /\ error = "none"
  /\ firstCall = NoFirstCall

NextFunctions ==
  \/ TransformDirect
  \/ RejectInvalid
  \/ AcceptBuffer
  \/ AcceptFlushLoad
  \/ FinalFlushLoad

SpecFunctions == InitFunctions /\ [][NextFunctions]_vars

\* ------------------------------------------------------------- claims
SetOf(s) == {s[i] : i \in 1..Len(s)}

HasOp(op) == {k \in 1..Len(calls) : calls[k].op = op}

Score(user) == calculateCompletenessScore(user)

\* C1: every entity passed to loadUserBatch, from a full batch or from the
\* final one, merged or not, has totalEngagement equal to the sum of its
\* posts' engagement and totalSales equal to the sum of its sales amounts.
C1_LoadedTotalsAreSums ==
  \A k \in HasOp("loadUserBatch") :
    \A i \in 1..Len(calls[k].users) :
      /\ calls[k].users[i].totalEngagement
           = SumEngagement(calls[k].users[i].posts)
      /\ calls[k].users[i].totalSales
           = SumAmount(calls[k].users[i].salesAttributions)

\* A merged entity (its totals were zeroed by mergeUsers) with posts and
\* sales has been handed to the loader.
C1_MergedEntityLoaded ==
  \E k \in HasOp("loadUserBatch") :
    \E i \in 1..Len(calls[k].users), j \in 1..Len(dedup.output) :
      /\ dedup.output[j].userId = calls[k].users[i].userId
      /\ dedup.output[j].totalEngagement = 0
      /\ dedup.output[j].totalSales = 0
      /\ calls[k].users[i].totalEngagement > 0
      /\ calls[k].users[i].totalSales > 0

\* C2: a batch that holds the same entity A twice is deduplicated to one
\* entity whose handles, programs, posts and sales attributions equal A's as
\* sets and whose recomputed totals equal A's totals.
C2_DedupIdempotent ==
  (Len(dedup.input) = 2 /\ dedup.input[1] = dedup.input[2])
    => /\ Len(dedup.output) = 1
       /\ LET A == dedup.input[1]
              R == recalculateTotals(dedup.output[1])
          IN /\ SetOf(R.socialHandles) = SetOf(A.socialHandles)
             /\ SetOf(R.programs) = SetOf(A.programs)
             /\ SetOf(R.posts) = SetOf(A.posts)
             /\ SetOf(R.salesAttributions) = SetOf(A.salesAttributions)
             /\ R.totalEngagement = A.totalEngagement
             /\ R.totalSales = A.totalSales

\* C3: for every identifier of a batch, the entity deduplicateUsers returns
\* has, once its totals are recomputed, a completeness score at least as
\* high as that of every input entity with that identifier.
C3_MostCompleteSurvives ==
  \A j \in 1..Len(dedup.output), i \in 1..Len(dedup.input) :
    dedup.input[i].userId = dedup.output[j].userId
      => Score(recalculateTotals(dedup.output[j])) >= Score(dedup.input[i])

\* The batch is exactly two entities with one identifier and two scores.
TwoUnequal ==
  /\ Len(dedup.input) = 2
  /\ dedup.input[1].userId = dedup.input[2].userId
  /\ Score(dedup.input[1]) # Score(dedup.input[2])

\* C4: of exactly two entities with one identifier and different scores, in
\* either order, deduplicateUsers returns exactly the higher-scored one.
C4_HigherScoreReturned ==
  TwoUnequal
    => dedup.output
         = <<IF Score(dedup.input[1]) > Score(dedup.input[2])
               THEN dedup.input[1]
               ELSE dedup.input[2]>>

\* The higher-scored entity came second; the first has another name, an
\* email, a join date, handles, another program and another post.
C4_LowerFirstReplaced ==
  /\ TwoUnequal
  /\ Score(dedup.input[1]) < Score(dedup.input[2])
  /\ dedup.input[1].name # dedup.input[2].name
  /\ dedup.input[1].email # <<>>
  /\ dedup.input[1].joinDate.def
  /\ dedup.input[1].socialHandles # <<>>
  /\ dedup.input[1].programs # dedup.input[2].programs
  /\ dedup.input[1].posts # dedup.input[2].posts
  /\ dedup.input[2].salesAttributions # <<>>
  /\ dedup.output # <<>>

\* C5: within one run no identifier is passed to loadUserBatch twice, over
\* all load calls of the run.
C5_IdentifierLoadedOnce ==
  \A k1, k2 \in HasOp("loadUserBatch") :
    \A i1 \in 1..Len(calls[k1].users), i2 \in 1..Len(calls[k2].users) :
      calls[k1].users[i1].userId = calls[k2].users[i2].userId
        => k1 = k2 /\ i1 = i2

\* The run is over; with batches of one record, two records of u1 were
\* accepted, so the later one met its identifier in the processed set.
C5_LaterBatchDropped ==
  /\ pc = "done"
  /\ outcome = "returned"
  /\ options.batchSize = 1
  /\ \E i, j \in 1..Len(files) :
       i < j /\ files[i] = "A" /\ files[j] = "C"
  /\ Cardinality(HasOp("loadUserBatch")) = 1

\* The calls that write to the database.
IsPersistence(op) ==
  op \in {"cleanDatabase", "loadUserBatch", "bulkWrite", "insertMany",
          "updateProgramStats"}

\* C6: once connectDB has been attempted, runPipeline settles only after
\* exactly one disconnectDB call, which follows every persistence call of
\* the run; disconnectDB is never invoked twice.
C6_DisconnectsExactlyOnce ==
  LET d == HasOp("disconnectDB")
  IN /\ Cardinality(d) <= 1
     /\ \A k \in d : \A j \in 1..Len(calls) :
          IsPersistence(calls[j].op) \/ calls[j].op = "connectDB" => j < k
     /\ (HasOp("connectDB") # {} /\ (pc = "done" \/ outcome # "pending"))
          => d = {Len(calls)}
     /\ d # {} => pc = "done" /\ outcome # "pending"

\* A run that loaded a batch, failed in updateProgramStats and has settled.
C6_FailedRunDisconnected ==
  /\ pc = "done"
  /\ outcome = "rejected"
  /\ HasOp("loadUserBatch") # {}
  /\ HasOp("updateProgramStats") # {}
  /\ calls[Len(calls)].op = "disconnectDB"
  /\ calls[Len(calls) - 1].op = "updateProgramStats"

\* C7: updateProgramStats is invoked at most once in a run and exactly once
\* in a run that returns statistics, when the last loadUserBatch call has
\* completed: no load call and no bulk write of users follows it.
C7_StatsOnceAfterLoads ==
  LET s == HasOp("updateProgramStats")
  IN /\ Cardinality(s) <= 1
     /\ outcome = "returned" => Cardinality(s) = 1
     /\ s # {} => load.i >= Len(load.users)
     /\ \A k \in s : \A j \in 1..Len(calls) :
          calls[j].op \in {"loadUserBatch", "bulkWrite", "insertMany"}
            => j < k

\* A run that returned statistics after two load calls.
C7_ReturnedAfterTwoLoads ==
  /\ outcome = "returned"
  /\ Cardinality(HasOp("loadUserBatch")) >= 2
  /\ Cardinality(HasOp("updateProgramStats")) = 1

\* The stream stands before a file that stays unparsable after the repair.
AtUnparsable == pc = "stream" /\ idx < Len(files) /\ ~Extracted.found

\* C8: when the stream passes a file that is unparsable after the repair
\* attempt, the run goes on to the next file and the skip is counted: the
\* statistics record changes.
C8_SkipIsCounted ==
  [][(AtUnparsable /\ idx' = idx + 1)
       => (pc' = "stream" /\ statistics' # statistics)]_vars

\* The stream stands before a record that validateUser rejects.
AtRejected ==
  /\ pc = "stream"
  /\ idx < Len(files)
  /\ Extracted.found
  /\ ~validationResult.success

\* C9: the step over a record that validateUser rejects makes no
\* transformUser call, leaves the batch buffer and the calls to the loader
\* as they are, adds exactly one to validationErrors and to failedRecords,
\* and stays in the stream; the stream is left for the aggregation only
\* when every file of the sequence has been consumed.
C9_RejectedRecordExcluded ==
  [][/\ (AtRejected /\ idx' # idx)
          => /\ genSeq' = genSeq
             /\ currentBatch' = currentBatch
             /\ calls' = calls
             /\ userCollection' = userCollection
             /\ statistics'.validationErrors = statistics.validationErrors + 1
             /\ statistics'.failedRecords = statistics.failedRecords + 1
             /\ idx' = idx + 1
             /\ pc' = "stream"
     /\ (pc' = "aggregate" /\ pc # "aggregate") => idx' = Len(files')]_vars

\* A record was rejected and a later file of the run was loaded.
C9_LoadAfterRejection ==
  /\ statistics.validationErrors >= 1
  /\ statistics.failedRecords >= 1
  /\ \E i, j \in 1..Len(files) : i < j /\ j <= idx /\ files[i] = "V" /\ files[j] = "A"
  /\ HasOp("loadUserBatch") # {}
  /\ outcome = "returned"

\* The chunks submitted to the driver so far, in order.
Submitted ==
  LET IsWrite(c) == c.op \in {"bulkWrite", "insertMany"}
      w == SelectSeq(calls, IsWrite)
  IN [k \in 1..Len(w) |-> w[k].users]

RECURSIVE Concat(_)
Concat(chunks) ==
  IF chunks = <<>> THEN <<>> ELSE Head(chunks) \o Concat(Tail(chunks))

RECURSIVE SizeOf(_, _)
SizeOf(chunks, K) ==
  IF K = {} THEN 0
  ELSE LET k == CHOOSE x \in K : TRUE
       IN Len(chunks[k]) + SizeOf(chunks, K \ {k})

\* The chunks submitted so far are the input cut, in order, into pieces of
\* batchSize (the last one may be shorter); failed is the size of the
\* chunks that failed and the other chunks bound inserted + updated.
ChunksPartitionInput ==
  LET n == Len(load.users)
      all == 1..Len(Submitted)
  IN /\ Concat(Submitted) = SubSeq(load.users, 1, Min(load.i, n))
     /\ \A k \in all : Len(Submitted[k]) \in 1..load.batchSize
     /\ load.i = load.batchSize * Len(Submitted)
     /\ \E F \in SUBSET all :
          /\ load.result.failed = SizeOf(Submitted, F)
          /\ load.result.inserted + load.result.updated
               <= SizeOf(Submitted, all \ F)
     /\ load.result.inserted + load.result.updated + load.result.failed <= n
     /\ pc = "loaded" => Concat(Submitted) = load.users

\* The driver settles every bulk write and the caller is resumed.
SpecLoadFair == SpecLoad /\ WF_vars(NextLoad)

\* C10: for every list and every batchSize >= 1, loadUserBatch returns,
\* having submitted each entity in exactly one chunk of at most batchSize
\* entities in input order; a failing chunk adds exactly its size to failed
\* and does not stop the later chunks, and inserted + updated + failed
\* never exceeds the number of input entities.
C10_ChunkedLoadIsolatesFailures ==
  /\ []ChunksPartitionInput
  /\ <>(pc = "loaded")

\* A call that returned after its first chunk failed and a later, shorter
\* chunk was written.
C10_LaterChunkAfterFailure ==
  /\ pc = "loaded"
  /\ load.batchSize >= 2
  /\ Len(Submitted) >= 2
  /\ Len(Submitted[Len(Submitted)]) < load.batchSize
  /\ load.result.failed = Len(Submitted[1])
  /\ load.result.errors # <<>>
  /\ load.result.inserted + load.result.updated > 0

\* C11: when loadUserBatch has returned, errors holds one entry per failed
\* record: errors.length equals failed, whether the failing writes carried
\* writeErrors or not.
C11_OneErrorPerFailedRecord ==
  pc = "loaded" => Len(load.result.errors) = load.result.failed

\* The batch is two entities with one identifier and equal scores: the
\* second was merged into the first.
MergedPair ==
  /\ Len(dedup.input) = 2
  /\ dedup.input[1].userId = dedup.input[2].userId
  /\ Score(dedup.input[1]) = Score(dedup.input[2])

PostIds(user) == {user.posts[i].postId : i \in 1..Len(user.posts)}

\* C12: the posts of the merge of two entities hold each postId of the
\* operands exactly once, and for a postId of both operands the post kept is
\* the one of higher engagement, the first operand's when they are equal.
C12_MergedPostsKeepHigherEngagement ==
  MergedPair =>
    LET a == dedup.input[1]
        b == dedup.input[2]
        m == dedup.output[1]
    IN /\ Len(dedup.output) = 1
       /\ PostIds(m) = PostIds(a) \cup PostIds(b)
       /\ \A i, j \in 1..Len(m.posts) :
            m.posts[i].postId = m.posts[j].postId => i = j
       /\ \A i \in 1..Len(a.posts), j \in 1..Len(b.posts) :
            a.posts[i].postId = b.posts[j].postId
              => \E k \in 1..Len(m.posts) :
                   m.posts[k] = IF b.posts[j].engagement > a.posts[i].engagement
                                  THEN b.posts[j]
                                  ELSE a.posts[i]

\* Two merged entities share a postId and the second one's post has the
\* higher engagement.
C12_SecondPostHigher ==
  /\ MergedPair
  /\ \E i \in 1..Len(dedup.input[1].posts),
        j \in 1..Len(dedup.input[2].posts) :
       /\ dedup.input[1].posts[i].postId = dedup.input[2].posts[j].postId
       /\ dedup.input[2].posts[j].engagement
            > dedup.input[1].posts[i].engagement
       /\ dedup.input[2].posts[j].platform # dedup.input[1].posts[i].platform

SalesProgramIds(user) ==
  {user.salesAttributions[i].programId : i \in 1..Len(user.salesAttributions)}

\* The amount attributed to programId in the entity (0 when there is none).
AmountOf(user, programId) ==
  LET IsProgram(x) == x.programId = programId
  IN SumAmount(SelectSeq(user.salesAttributions, IsProgram))

\* C13: the merge of two entities has exactly one sales attribution per
\* programId of either operand, whose amount is the sum of the operands'
\* amounts for that programId (the operand's own amount when the other
\* operand has none).
C13_MergedSalesSumPerProgram ==
  MergedPair =>
    LET a == dedup.input[1]
        b == dedup.input[2]
        m == dedup.output[1]
    IN /\ SalesProgramIds(m) = SalesProgramIds(a) \cup SalesProgramIds(b)
       /\ \A i, j \in 1..Len(m.salesAttributions) :
            m.salesAttributions[i].programId = m.salesAttributions[j].programId
              => i = j
       /\ \A i \in 1..Len(m.salesAttributions) :
            m.salesAttributions[i].amount
              = AmountOf(a, m.salesAttributions[i].programId)
                + AmountOf(b, m.salesAttributions[i].programId)

\* Two merged entities that both have sales in one program.
C13_SharedProgramSummed ==
  /\ MergedPair
  /\ \E programId \in SalesProgramIds(dedup.input[1])
                         \cap SalesProgramIds(dedup.input[2]) :
       AmountOf(dedup.output[1], programId)
         > AmountOf(dedup.input[1], programId)

\* Both calls of loadUserBatch have returned, and no chunk of either failed.
LoadedTwice ==
  /\ pc = "loaded"
  /\ firstCall.done
  /\ load.upsert
  /\ firstCall.result.failed = 0
  /\ load.result.failed = 0

DirectoryMissing == pc = "finally" /\ error = "extractFiles"

\* C15: when the data directory does not exist, runPipeline rejects with the
\* error of extractFiles, returns no statistics, and the run has called
\* neither loadUserBatch nor updateProgramStats.
C15_MissingDirectoryRejects ==
  [][(DirectoryMissing /\ pc' = "done") =>
       /\ outcome' = "rejected"
       /\ error' = "extractFiles"
       /\ \A k \in 1..Len(calls') :
            calls'[k].op \notin {"loadUserBatch", "bulkWrite", "insertMany",
                                 "updateProgramStats"}]_vars

\* C16: transformUser called on a record whose fields are each absent, null,
\* a string or a number does not throw: the call returns an entity.
C16_TransformNeverThrows ==
  pc \in {"transformed", "threw"} =>
    /\ pc = "transformed"
    /\ Len(currentBatch) = 1

\* The entity made of rawData is the one buffered: transformUser was called
\* on it directly, or the stream has accepted the one record of its file.
RawTransformed ==
  \/ pc = "transformed"
  \/ files = <<"raw">> /\ idx = 1 /\ Len(currentBatch) = 1

\* The tasks of rawData in the order transformUser collects them.
RawTasks ==
  IF rawData.advocacy_programs.t = "arr"
    THEN AllTasks(rawData.advocacy_programs.items)
    ELSE <<>>

Counters == {"likes", "comments", "shares", "reach"}

\* The counter is missing, null or has no numeric reading.
NoCount(v) == v.t \in {"absent", "null"} \/ JsNumber(v).t = "nan"

\* C17: every post of a transformed entity has 0 for each of likes, comments,
\* shares and reach that is missing, null or not convertible to a number in
\* its task, every counter is a number, and its engagement is
\* likes + comments + shares.
C17_CountersDefaultToZero ==
  RawTransformed =>
    /\ Len(currentBatch[1].posts) = Len(RawTasks)
    /\ \A i \in 1..Len(RawTasks) :
         LET post == currentBatch[1].posts[i]
         IN /\ \A f \in Counters :
                 /\ post[f] \in Int
                 /\ NoCount(RawTasks[i][f]) => post[f] = 0
            /\ post.engagement = post.likes + post.comments + post.shares

\* A post whose task has a non-numeric likes and a numeric reach.
C17_DefaultedLikesWithReach ==
  /\ RawTransformed
  /\ \E i \in 1..Len(RawTasks) :
       /\ RawTasks[i].likes.t = "str"
       /\ JsNumber(RawTasks[i].likes).t = "nan"
       /\ currentBatch[1].posts[i].reach > 0
       /\ currentBatch[1].posts[i].engagement > 0

\* The programs of rawData.
RawPrograms ==
  IF rawData.advocacy_programs.t = "arr"
    THEN rawData.advocacy_programs.items
    ELSE <<>>

\* The program id as text: a string, or a number the validator has written
\* out.
IdText(v) == IF v.t = "num" THEN NumToChars(v.n) ELSE v.s

\* The program has a non-blank id and its total_sales_attributed reads as a
\* number above 0.
HasSales(prog) ==
  /\ prog.program_id.t \in {"str", "num"}
  /\ trim(IdText(prog.program_id)) # <<>>
  /\ JsNumber(prog.total_sales_attributed).t = "num"
  /\ JsNumber(prog.total_sales_attributed).n > 0

SalesOk(users) ==
  \A i \in 1..Len(users) :
    \A k \in 1..Len(users[i].salesAttributions) :
      /\ users[i].salesAttributions[k].amount > 0
      /\ trim(users[i].salesAttributions[k].programId) # <<>>

\* C18: the transformed entity has one sales attribution for each program of
\* its record that has a non-blank id and a total_sales_attributed that reads
\* as a number above 0, and no other; every attribution of every buffered,
\* merged and loaded entity has an amount above 0 and a non-blank programId.
C18_SalesOnlyWhenPositive ==
  /\ RawTransformed =>
       LET recorded == {i \in 1..Len(RawPrograms) : HasSales(RawPrograms[i])}
           sales == currentBatch[1].salesAttributions
       IN /\ Len(sales) = Cardinality(recorded)
          /\ \A i \in recorded :
               \E k \in 1..Len(sales) :
                 /\ sales[k].programId = IdText(RawPrograms[i].program_id)
                 /\ sales[k].amount
                      = JsNumber(RawPrograms[i].total_sales_attributed).n
  /\ SalesOk(currentBatch)
  /\ SalesOk(dedup.output)
  /\ SalesOk(load.users)
  /\ SalesOk(userCollection)

\* A transformed record whose one program has its sales written as a
\* string.
C18_StringSalesRecorded ==
  /\ RawTransformed
  /\ Len(RawPrograms) = 1
  /\ RawPrograms[1].total_sales_attributed.t = "str"
  /\ Len(currentBatch[1].salesAttributions) = 1

\* The field holds a non-empty string, or a number.
Filled(v) == (v.t = "str" /\ v.s # <<>>) \/ v.t = "num"

\* user_id, name and email are present and non-empty and advocacy_programs
\* is a non-empty list.
CleanFields(data) ==
  /\ Filled(data.user_id)
  /\ Filled(data.name)
  /\ Filled(data.email)
  /\ data.advocacy_programs.t = "arr"
  /\ Len(data.advocacy_programs.items) > 0

\* C19: isClean is true exactly for an accepted record whose user_id, name
\* and email are present and non-empty and whose advocacy_programs is a
\* non-empty list; an accepted record that is not clean is transformed and
\* pushed to the batch, counted in messyRecords and not in validationErrors.
C19_MessyRecordsAreProcessed ==
  [][(pc = "stream" /\ idx < Len(files) /\ Extracted.found) =>
       /\ validationResult.isClean
            <=> (validationResult.success /\ CleanFields(Extracted.data))
       /\ (validationResult.success /\ ~CleanFields(Extracted.data)) =>
            /\ \/ currentBatch' = Append(currentBatch, transformed)
               \/ dedup'.input = Append(currentBatch, transformed)
            /\ statistics'.messyRecords = statistics.messyRecords + 1
            /\ statistics'.cleanRecords = statistics.cleanRecords
            /\ statistics'.validationErrors = statistics.validationErrors
            /\ statistics'.failedRecords = statistics.failedRecords]_vars

\* The record with an empty email and no programs was accepted, buffered and
\* counted as messy.
C19_MessyRecordBuffered ==
  /\ files = <<"raw">>
  /\ idx = 1
  /\ rawData.email = Str(<<>>)
  /\ rawData.advocacy_programs.t = "null"
  /\ Len(currentBatch) = 1
  /\ statistics.messyRecords = 1
  /\ statistics.validationErrors = 0

\* updateProgramStats has returned.
StatsUpdated == pc \in {"finally", "done"} /\ error # "updateProgramStats"

Lists(user, programId) ==
  \E i \in 1..Len(user.programs) : user.programs[i].programId = programId

\* The sum of field f over the documents that list programId.
RECURSIVE SumOfListing(_, _, _)
SumOfListing(db, programId, f) ==
  IF db = <<>> THEN 0
  ELSE (IF Lists(Head(db), programId) THEN Head(db)[f] ELSE 0)
       + SumOfListing(Tail(db), programId, f)

\* C20: after updateProgramStats, every programId listed by a persisted
\* entity has exactly one aggregate row, whose userCount is the number of
\* distinct persisted entities that list it and whose totalEngagement and
\* totalSales are the sums of those entities' totals.
C20_OneRowPerProgramDistinctUsers ==
  StatsUpdated =>
    \A u \in 1..Len(userCollection) :
      \A p \in 1..Len(userCollection[u].programs) :
        LET programId == userCollection[u].programs[p].programId
            rows == {k \in 1..Len(programCollection) :
                       programCollection[k].programId = programId}
        IN /\ Cardinality(rows) = 1
           /\ \A k \in rows :
                /\ programCollection[k].userCount
                     = Cardinality({i \in 1..Len(userCollection) :
                                      Lists(userCollection[i], programId)})
                /\ programCollection[k].totalEngagement
                     = SumOfListing(userCollection, programId,
                                    "totalEngagement")
                /\ programCollection[k].totalSales
                     = SumOfListing(userCollection, programId, "totalSales")

\* The programIds listed by the documents of the user collection.
ListedProgramIds ==
  UNION {{userCollection[u].programs[p].programId :
            p \in 1..Len(userCollection[u].programs)} :
           u \in 1..Len(userCollection)}

\* C21: after updateProgramStats the programIds that have an aggregate row
\* are the programIds listed by some persisted entity: no row remains for a
\* program that no persisted entity lists.
C21_RowsAreListedPrograms ==
  StatsUpdated =>
    {programCollection[k].programId : k \in 1..Len(programCollection)}
      = ListedProgramIds

\* The loop body is about to handle an item that validateUser accepts.
AtAccepted ==
  /\ pc = "stream"
  /\ idx < Len(files)
  /\ Extracted.found
  /\ validationResult.success

\* C22: the batch never holds more than batchSize entities and holds fewer
\* between two records; an accepted record that brings it to batchSize
\* flushes it, and it is empty once the flush is over, with or without a
\* load call and whatever the load call reported; a record that leaves it
\* below batchSize is only appended.
C22_BatchBelowBatchSize ==
  [][/\ Len(currentBatch') <= options.batchSize
     /\ pc' = "stream" => Len(currentBatch') < options.batchSize
     /\ (pc = "load" /\ load.ret = "stream" /\ pc' = "stream")
          => currentBatch' = <<>>
     /\ (AtAccepted /\ Len(currentBatch) + 1 = options.batchSize)
          => /\ dedup'.input = Append(currentBatch, transformed)
             /\ pc' = "stream" => currentBatch' = <<>>
     /\ (AtAccepted /\ Len(currentBatch) + 1 < options.batchSize)
          => /\ currentBatch' = Append(currentBatch, transformed)
             /\ UNCHANGED <<dedup, calls>>]_vars

\* The stream goes on with an empty batch after a flush whose load call
\* reported failures.
C22_EmptyAfterFailedLoad ==
  /\ pc = "stream"
  /\ idx < Len(files)
  /\ currentBatch = <<>>
  /\ load.ret = "stream"
  /\ load.result.failed > 0
  /\ options.batchSize > 1

\* C23: every program of a transformed entity has a name that is non-blank
\* and is not the placeholder "Unknown Program"; the entity has the posts of
\* all tasks and the sales attributions of all programs of its record, those
\* of the programs it dropped included.
C23_KeptProgramsHaveBrand ==
  RawTransformed =>
    /\ \A k \in 1..Len(currentBatch[1].programs) :
         /\ trim(currentBatch[1].programs[k].programName) # <<>>
         /\ currentBatch[1].programs[k].programName # UnknownProgram
    /\ Len(currentBatch[1].posts) = Len(RawTasks)
    /\ Len(currentBatch[1].salesAttributions)
         = Cardinality({i \in 1..Len(RawPrograms) : HasSales(RawPrograms[i])})

\* C24: every social handle of a transformed entity is non-empty, lower
\* case, without leading or trailing whitespace and without a leading '@',
\* and normalizeSocialHandle leaves it unchanged.
C24_HandlesAreNormalized ==
  RawTransformed =>
    \A k \in 1..Len(currentBatch[1].socialHandles) :
      LET handle == currentBatch[1].socialHandles[k].handle
      IN /\ handle # <<>>
         /\ toLowerCase(handle) = handle
         /\ trim(handle) = handle
         /\ Head(handle) # "@"
         /\ normalizeSocialHandle(handle) = handle

\* C25: every post of a transformed entity has likes, comments, shares,
\* reach and engagement of 0 or more, and the entity's totalEngagement is 0
\* or more.
C25_CountersNotNegative ==
  RawTransformed =>
    /\ \A i \in 1..Len(currentBatch[1].posts) :
         /\ \A f \in Counters : currentBatch[1].posts[i][f] >= 0
         /\ currentBatch[1].posts[i].engagement >= 0
    /\ currentBatch[1].totalEngagement >= 0

\* C26: between two items and from the end of the loop on, totalFiles is the
\* sum of validationErrors, cleanRecords and messyRecords, validationErrors
\* is at most failedRecords, and processedFiles is at most the sum of
\* cleanRecords and messyRecords.
C26_CountersAddUp ==
  pc \in {"stream", "load", "aggregate", "finally", "done"} =>
    /\ statistics.totalFiles
         = statistics.validationErrors + statistics.cleanRecords
           + statistics.messyRecords
    /\ statistics.validationErrors <= statistics.failedRecords
    /\ statistics.processedFiles
         <= statistics.cleanRecords + statistics.messyRecords

\* A run returned after a rejected, a clean and a messy record and a failed
\* load.
C26_ReturnedWithAllKinds ==
  /\ pc = "done"
  /\ outcome = "returned"
  /\ statistics.validationErrors > 0
  /\ statistics.cleanRecords > 0
  /\ statistics.messyRecords > 0
  /\ statistics.failedRecords > statistics.validationErrors
  /\ statistics.processedFiles = 2

\* C27: between two records and after the loop, every identifier of the
\* processed set is stored in the user collection: it is in the set only
\* because a load of it succeeded.
C27_ProcessedMeansPersisted ==
  pc \in {"stream", "aggregate"} =>
    \A id \in processedUserIds :
      \E k \in 1..Len(userCollection) : userCollection[k].userId = id

\* C28: when extractFiles has thrown for the missing directory, the user
\* collection and the program collection are the ones the run started on.
C28_MissingDirectoryLeavesDatabase ==
  DirectoryMissing =>
    \E d \in InitialDatabases :
      userCollection = d.users /\ programCollection = d.programs

\* The two entities have the same identifier, name, email and join date and
\* the same handles, programs, posts and sales attributions as sets.
SameData(a, b) ==
  /\ a.userId = b.userId
  /\ a.name = b.name
  /\ a.email = b.email
  /\ a.joinDate = b.joinDate
  /\ SetOf(a.socialHandles) = SetOf(b.socialHandles)
  /\ SetOf(a.programs) = SetOf(b.programs)
  /\ SetOf(a.posts) = SetOf(b.posts)
  /\ SetOf(a.salesAttributions) = SetOf(b.salesAttributions)

\* C29: deduplicateUsers returns, for every permutation of the batch, an
\* entity with the same data for each identifier.
C29_DedupIgnoresOrder ==
  \A p \in Permutations(1..Len(dedup.input)) :
    LET permuted == [i \in 1..Len(dedup.input) |-> dedup.input[p[i]]]
        reordered == deduplicateUsers(permuted)
    IN /\ Len(reordered) = Len(dedup.output)
       /\ \A i \in 1..Len(dedup.output) :
            \E j \in 1..Len(reordered) :
                 SameData(dedup.output[i], reordered[j])

\* The second run over the directory has returned with every load persisted.
RanTwice ==
  /\ firstCall.done
  /\ pc = "done"
  /\ outcome = "returned"
  /\ statistics.failedRecords = statistics.validationErrors

\* C30: after runPipeline has run twice over the same directory without
\* cleanDatabase, the user collection holds the identifiers it held after
\* the first run.
C30_SecondRunAddsNoUser ==
  RanTwice => UserIds(userCollection) = UserIds(firstCall.stored)

====
